---- MODULE Spec2Model ----
(***************************************************************************)
(* Model of the leaflet scraper's extraction and normalisation pipeline:   *)
(* DateParser.parse_date_range, LeafletParser.parse with its thumbnail     *)
(* fallback chain, Leaflet.validate and                                    *)
(* LeafletScraper.extract_leaflets_from_page.                              *)
(*                                                                         *)
(* Python str values are TLA+ strings, read character by character with    *)
(* Len, SubSeq and \o.  Python values whose type matters are tagged        *)
(* records: [type |-> "str", val |-> s], [type |-> "NoneType"], ...        *)
(***************************************************************************)
EXTENDS Integers, Sequences, FiniteSets, TLC

VARIABLES
    pc,                \* where extract_leaflets_from_page stands
    html,              \* its argument: the page
    shop_name,         \* its argument: the shop-name override
    leaflet_elements,  \* container.select('div.brochure-thumb.grid-item')
    idx,               \* the loop index of enumerate(leaflet_elements, 1)
    leaflets,          \* the list being built and returned
    stamps,            \* the clock reading each iteration's parse took
    call,              \* a direct call of one unit: the operation and arguments
    ret,               \* what that call returned or raised
    prev               \* the call and result a date text was derived from

vars ==
    <<pc, html, shop_name, leaflet_elements, idx, leaflets, stamps,
      call, ret, prev>>

pipeline_vars == <<pc, html, shop_name, leaflet_elements, idx, leaflets, stamps>>

call_vars == <<call, ret, prev>>

(***************************************************************************)
(* Python values                                                           *)
(***************************************************************************)
PyNone == [type |-> "NoneType"]

PyStr(s) == [type |-> "str", val |-> s]

PyInt(n) == [type |-> "int", val |-> n]

\* bool(v) for the optional strings the code tests with `if v:` / `not v`
Truthy(v) == v.type = "str" /\ v.val # ""

\* an exception in flight: its class and its message
Raise(cls, msg) == [type |-> "raise", exc |-> cls, msg |-> msg]

IsRaise(v) == v.type = "raise"

\* the classes `except Exception` catches (everything the model raises)
ExceptionClasses ==
    {"ParsingException", "ValidationException", "ScraperException",
     "AttributeError", "TypeError", "IndexError", "ValueError"}

(***************************************************************************)
(* Characters and strings                                                  *)
(***************************************************************************)
Ch(s, i) == SubSeq(s, i, i)

Digits == {"0", "1", "2", "3", "4", "5", "6", "7", "8", "9"}

DigitChars == <<"0", "1", "2", "3", "4", "5", "6", "7", "8", "9">>

UpperChars ==
    <<"A", "B", "C", "D", "E", "F", "G", "H", "I", "J", "K", "L", "M",
      "N", "O", "P", "Q", "R", "S", "T", "U", "V", "W", "X", "Y", "Z">>

LowerChars ==
    <<"a", "b", "c", "d", "e", "f", "g", "h", "i", "j", "k", "l", "m",
      "n", "o", "p", "q", "r", "s", "t", "u", "v", "w", "x", "y", "z">>

UpperSet == {UpperChars[i] : i \in 1..26}

LowerSet == {LowerChars[i] : i \in 1..26}

\* str.isspace() of one character (the ASCII whitespace the inputs use)
IsSpace(c) == c \in {" ", "\t", "\n"}

IsDigit(c) == c \in Digits

\* the regex class \w
WordChars == Digits \cup UpperSet \cup LowerSet \cup {"_"}

IsWordChar(c) == c \in WordChars

\* case folding of re.IGNORECASE, one character
LowerOf == [c \in UpperSet |-> LowerChars[CHOOSE i \in 1..26 : UpperChars[i] = c]]

Lower(c) == IF c \in UpperSet THEN LowerOf[c] ELSE c

DigitVal(c) == (CHOOSE i \in 1..10 : DigitChars[i] = c) - 1

RECURSIVE IntOfFrom(_, _, _)
IntOfFrom(s, i, acc) ==
    IF i > Len(s) THEN acc
    ELSE IntOfFrom(s, i + 1, acc * 10 + DigitVal(Ch(s, i)))

\* int(s) of a string of decimal digits
IntOf(s) == IntOfFrom(s, 1, 0)

RECURSIVE StrOfNat(_)
StrOfNat(n) ==
    IF n < 10 THEN DigitChars[n + 1]
    ELSE StrOfNat(n \div 10) \o DigitChars[(n % 10) + 1]

\* str(n) of an int: no padding, a minus sign for negatives
StrOf(n) == IF n < 0 THEN "-" \o StrOfNat(0 - n) ELSE StrOfNat(n)

\* the zero-padded field of strftime / f"{n:02d}"
RECURSIVE ZeroFill(_, _)
ZeroFill(t, width) ==
    IF Len(t) >= width THEN t ELSE ZeroFill("0" \o t, width)

Pad(n, width) == ZeroFill(StrOfNat(n), width)

RECURSIVE LStripFrom(_, _)
LStripFrom(s, i) ==
    IF i > Len(s) THEN ""
    ELSE IF IsSpace(Ch(s, i)) THEN LStripFrom(s, i + 1)
    ELSE SubSeq(s, i, Len(s))

RECURSIVE RStripTo(_, _)
RStripTo(s, j) ==
    IF j < 1 THEN ""
    ELSE IF IsSpace(Ch(s, j)) THEN RStripTo(s, j - 1)
    ELSE SubSeq(s, 1, j)

\* str.strip()
RStrip(s) == RStripTo(s, Len(s))

strip(s) == RStrip(LStripFrom(s, 1))

\* str.startswith(p)
startswith(s, p) == Len(s) >= Len(p) /\ SubSeq(s, 1, Len(p)) = p

\* the first index >= i of s that holds c, or 0
RECURSIVE FindFrom(_, _, _)
FindFrom(s, c, i) ==
    IF i > Len(s) THEN 0
    ELSE IF Ch(s, i) = c THEN i
    ELSE FindFrom(s, c, i + 1)

(***************************************************************************)
(* Configuration constants (config.py)                                     *)
(***************************************************************************)
BASE_URL == "https://www.prospektmaschine.de"

OPEN_ENDED_DATE == "9999-12-31"

GERMAN_DAYS ==
    <<"montag", "dienstag", "mittwoch", "donnerstag",
      "freitag", "samstag", "sonntag">>

\* the alternation of the prefix pattern \b(von|ab|seit)\b
PREFIXES == <<"von", "ab", "seit">>

(***************************************************************************)
(* DateParser.parse_date_range (parsers.py)                                *)
(***************************************************************************)
\* word, compared case-insensitively, stands at s[i..] between two \b
RECURSIVE SameFolded(_, _, _, _)
SameFolded(s, i, w, k) ==
    IF k > Len(w) THEN TRUE
    ELSE /\ Lower(Ch(s, i + k - 1)) = Ch(w, k)
         /\ SameFolded(s, i, w, k + 1)

WordAt(s, i, w) ==
    /\ i + Len(w) - 1 <= Len(s)
    /\ Lower(Ch(s, i)) = Ch(w, 1)
    /\ i = 1 \/ ~IsWordChar(Ch(s, i - 1))
    /\ i + Len(w) > Len(s) \/ ~IsWordChar(Ch(s, i + Len(w)))
    /\ SameFolded(s, i, w, 1)

\* the length of the first alternative of words that matches at s[i..], or 0
RECURSIVE AltAt(_, _, _, _)
AltAt(s, i, words, k) ==
    IF k > Len(words) THEN 0
    ELSE IF WordAt(s, i, words[k]) THEN Len(words[k])
    ELSE AltAt(s, i, words, k + 1)

\* the first index >= i of s where an alternative of words matches, or 0
RECURSIVE next_word(_, _, _)
next_word(s, words, i) ==
    IF i > Len(s) THEN 0
    ELSE IF AltAt(s, i, words, 1) > 0 THEN i
    ELSE next_word(s, words, i + 1)

\* re.sub(r'\b(w1|w2|...)\b', '', s, flags=re.IGNORECASE), scanning from i:
\* every non-overlapping match, left to right, is replaced by ''
RECURSIVE re_sub_words(_, _, _)
re_sub_step(s, words, i, m) ==
    IF m = 0 THEN SubSeq(s, i, Len(s))
    ELSE SubSeq(s, i, m - 1) \o re_sub_words(s, words, m + AltAt(s, m, words, 1))

re_sub_words(s, words, i) == re_sub_step(s, words, i, next_word(s, words, i))

\* for day in GERMAN_DAYS: date_string = re.sub(r'\b' + day + r'\b', ...)
RECURSIVE remove_days(_, _)
remove_days(s, k) ==
    IF k > Len(GERMAN_DAYS) THEN s
    ELSE remove_days(re_sub_words(s, <<GERMAN_DAYS[k]>>, 1), k + 1)

\* the normalisation without the removal of the prefixes
clean_date_string_days_only(s) == strip(remove_days(strip(s), 1))

\* lines 52-60: strip, remove the day names, remove the prefixes, strip
clean_date_string(s) ==
    strip(re_sub_words(remove_days(strip(s), 1), PREFIXES, 1))

\* (\d{2})\.(\d{2})\.(\d{4}) matches at s[i..i+9]
DateAt(s, i) ==
    /\ i >= 1
    /\ i + 9 <= Len(s)
    /\ IsDigit(Ch(s, i)) /\ IsDigit(Ch(s, i + 1))
    /\ Ch(s, i + 2) = "."
    /\ IsDigit(Ch(s, i + 3)) /\ IsDigit(Ch(s, i + 4))
    /\ Ch(s, i + 5) = "."
    /\ IsDigit(Ch(s, i + 6)) /\ IsDigit(Ch(s, i + 7))
    /\ IsDigit(Ch(s, i + 8)) /\ IsDigit(Ch(s, i + 9))

\* (\d{2})\.(\d{2})\. matches at s[i..i+5]
ShortDateAt(s, i) ==
    /\ i >= 1
    /\ i + 5 <= Len(s)
    /\ IsDigit(Ch(s, i)) /\ IsDigit(Ch(s, i + 1))
    /\ Ch(s, i + 2) = "."
    /\ IsDigit(Ch(s, i + 3)) /\ IsDigit(Ch(s, i + 4))
    /\ Ch(s, i + 5) = "."

\* \s* from s[i]: the index of the first character that is not whitespace
RECURSIVE SkipSpace(_, _)
SkipSpace(s, i) ==
    IF i > Len(s) THEN i
    ELSE IF IsSpace(Ch(s, i)) THEN SkipSpace(s, i + 1)
    ELSE i

\* \s*-\s* from s[i]: the index after it, or 0 when it does not match
DashFrom(s, j) ==
    IF j <= Len(s) /\ Ch(s, j) = "-" THEN SkipSpace(s, j + 1) ELSE 0

DashAt(s, i) == DashFrom(s, SkipSpace(s, i))

\* the second date of a range stands at s[e], where the dash ended
DateAfterDash(s, e) == e > 0 /\ DateAt(s, e)

\* pattern1 / pattern2 / pattern3 matches starting at s[i]
PatternAt(p, s, i) ==
    CASE p = 1 -> DateAt(s, i) /\ DateAfterDash(s, DashAt(s, i + 10))
      [] p = 2 -> ShortDateAt(s, i) /\ DateAfterDash(s, DashAt(s, i + 6))
      [] p = 3 -> DateAt(s, i)

\* re.search(pattern, s): the start of the leftmost match, or 0
RECURSIVE re_search(_, _, _)
re_search(p, s, i) ==
    IF i > Len(s) THEN 0
    ELSE IF PatternAt(p, s, i) THEN i
    ELSE re_search(p, s, i + 1)

\* f"{year}-{month}-{day}"
IsoDate(year, month, day) == year \o "-" \o month \o "-" \o day

DateTuple(valid_from, valid_to) ==
    [type |-> "tuple", valid_from |-> valid_from, valid_to |-> valid_to]

\* the groups of (\d{2})\.(\d{2})\.(\d{4}) matched at s[i], as year-month-day
GroupDate(s, i) ==
    IsoDate(SubSeq(s, i + 6, i + 9), SubSeq(s, i + 3, i + 4), SubSeq(s, i, i + 1))

\* lines 66-70: pattern1 matched at b, its second date at e
full_range(s, b, e) == DateTuple(GroupDate(s, b), GroupDate(s, e))

\* the start year without the rollover rule
start_year_of_end(month1, month2, year2) == year2

\* line 78: the year of a start date written without one
start_year(month1, month2, year2) ==
    IF IntOf(month1) <= IntOf(month2) THEN year2 ELSE StrOf(IntOf(year2) - 1)

\* lines 76-81: pattern2 matched at b, its second date at e
short_range(s, b, e) ==
    DateTuple(
        IsoDate(start_year(SubSeq(s, b + 3, b + 4), SubSeq(s, e + 3, e + 4),
                           SubSeq(s, e + 6, e + 9)),
                SubSeq(s, b + 3, b + 4), SubSeq(s, b, b + 1)),
        GroupDate(s, e))

\* lines 87-93: pattern3 matched at b
single_date(s, b) == DateTuple(GroupDate(s, b), OPEN_ENDED_DATE)

\* the three patterns with the single date tried first
first_match_single_first(original_string, date_string, m1, m2, m3) ==
    IF m3 > 0 THEN single_date(date_string, m3)
    ELSE IF m1 > 0 THEN full_range(date_string, m1, DashAt(date_string, m1 + 10))
    ELSE IF m2 > 0 THEN short_range(date_string, m2, DashAt(date_string, m2 + 6))
    ELSE Raise("ParsingException",
               "Unsupported date format: " \o original_string)

\* lines 62-95: m1, m2, m3 are where the three patterns match (0: nowhere)
first_match(original_string, date_string, m1, m2, m3) ==
    IF m1 > 0 THEN full_range(date_string, m1, DashAt(date_string, m1 + 10))
    ELSE IF m2 > 0 THEN short_range(date_string, m2, DashAt(date_string, m2 + 6))
    ELSE IF m3 > 0 THEN single_date(date_string, m3)
    ELSE Raise("ParsingException",
               "Unsupported date format: " \o original_string)

date_range_of_clean(original_string, date_string) ==
    first_match(original_string, date_string,
                re_search(1, date_string, 1), re_search(2, date_string, 1),
                re_search(3, date_string, 1))

\* the body of the try block, lines 50-95, for a str argument
date_range_of_str(original_string) ==
    date_range_of_clean(original_string, clean_date_string(original_string))

\* lines 49-95: a value that is no str has no strip()
date_range_try(date_string) ==
    IF date_string.type # "str"
    THEN Raise("AttributeError", "strip")
    ELSE date_range_of_str(date_string.val)

\* lines 97-100: ParsingException passes, any other Exception is wrapped
\* (the argument and the cause that follow in the message are left out)
date_range_except(r) ==
    IF ~IsRaise(r) THEN r
    ELSE IF r.exc = "ParsingException" THEN r
    ELSE IF r.exc \in ExceptionClasses
    THEN Raise("ParsingException", "Failed to parse date range")
    ELSE r

\* now is the clock reading datetime.now() returns
\* lines 46-47: the year a call without current_year works with
default_year(current_year, now) ==
    IF current_year.type = "NoneType" THEN PyInt(now.Y) ELSE current_year

\* lines 49-100 with current_year bound: no line reads it
date_range_in_year(date_string, year) ==
    date_range_except(date_range_try(date_string))

\* now is the clock reading datetime.now() returns
parse_date_range(date_string, current_year, now) ==
    date_range_in_year(date_string, default_year(current_year, now))

(***************************************************************************)
(* Leaflet and Leaflet.validate (models.py)                                *)
(***************************************************************************)
Leaflet(title, thumbnail, shop, valid_from, valid_to, parsed_time) ==
    [type |-> "Leaflet", title |-> title, thumbnail |-> thumbnail,
     shop_name |-> shop, valid_from |-> valid_from, valid_to |-> valid_to,
     parsed_time |-> parsed_time]

\* the length of the text a strptime directive matches at s[p..], or 0.
\* Each directive is a regex alternation tried in order, two characters
\* before one:  %m 1[0-2]|0[1-9]|[1-9]   %d 3[01]|[12]\d|0[1-9]|[1-9]| [1-9]
\* %H 2[0-3]|[0-1]\d|\d   %M [0-5]\d|\d   %S 6[0-1]|[0-5]\d|\d
DirectiveLen(d, s, p) ==
    LET c1 == IF p <= Len(s) THEN Ch(s, p) ELSE ""
        c2 == IF p + 1 <= Len(s) THEN Ch(s, p + 1) ELSE ""
        pos == Digits \ {"0"}
        two ==
            CASE d = "m" -> \/ c1 = "1" /\ c2 \in {"0", "1", "2"}
                            \/ c1 = "0" /\ c2 \in pos
              [] d = "d" -> \/ c1 = "3" /\ c2 \in {"0", "1"}
                            \/ c1 \in {"1", "2"} /\ c2 \in Digits
                            \/ c1 = "0" /\ c2 \in pos
              [] d = "H" -> \/ c1 = "2" /\ c2 \in {"0", "1", "2", "3"}
                            \/ c1 \in {"0", "1"} /\ c2 \in Digits
              [] d = "M" -> c1 \in {"0", "1", "2", "3", "4", "5"} /\ c2 \in Digits
              [] d = "S" -> \/ c1 = "6" /\ c2 \in {"0", "1"}
                            \/ c1 \in {"0", "1", "2", "3", "4", "5"} /\ c2 \in Digits
        one ==
            CASE d \in {"m", "d"} -> c1 \in pos
              [] OTHER -> c1 \in Digits
    IN  IF two THEN 2
        ELSE IF one THEN 1
        ELSE IF d = "d" /\ c1 = " " /\ c2 \in pos THEN 2
        ELSE 0

IsLeap(y) == y % 4 = 0 /\ (y % 100 # 0 \/ y % 400 = 0)

DaysInMonth(y, m) ==
    IF m = 2 THEN (IF IsLeap(y) THEN 29 ELSE 28)
    ELSE IF m \in {4, 6, 9, 11} THEN 30
    ELSE 31

StrptimeFail == [ok |-> FALSE, Y |-> 0, M |-> 0, D |-> 0]

CharIs(s, p, c) == p <= Len(s) /\ Ch(s, p) = c

\* %S at s[sp], sl characters long, ends the string; datetime() takes 0..59
time_second(s, sp, sl) ==
    /\ sl > 0
    /\ sp + sl - 1 = Len(s)
    /\ IntOf(SubSeq(s, sp, sp + sl - 1)) <= 59

time_minute(s, np, nl) ==
    /\ nl > 0
    /\ CharIs(s, np + nl, ":")
    /\ time_second(s, np + nl + 1, DirectiveLen("S", s, np + nl + 1))

time_hour(s, hp, hl) ==
    /\ hl > 0
    /\ CharIs(s, hp + hl, ":")
    /\ time_minute(s, hp + hl + 1, DirectiveLen("M", s, hp + hl + 1))

\* ' %H:%M:%S' from s[e]: the blank of the format is \s+
time_of_day(s, e, hp) == hp > e /\ time_hour(s, hp, DirectiveLen("H", s, hp))

\* the date read; e is the index after it
strptime_rest(s, time, Y, M, D, e) ==
    IF Y < 1 \/ D > DaysInMonth(Y, M) THEN StrptimeFail
    ELSE IF ~time /\ e - 1 # Len(s) THEN StrptimeFail
    ELSE IF time /\ ~time_of_day(s, e, SkipSpace(s, e)) THEN StrptimeFail
    ELSE [ok |-> TRUE, Y |-> Y, M |-> M, D |-> D]

strptime_day(s, time, ml, dp, dl) ==
    IF dl = 0 THEN StrptimeFail
    ELSE strptime_rest(s, time, IntOf(SubSeq(s, 1, 4)),
                       IntOf(SubSeq(s, 6, 5 + ml)),
                       IntOf(strip(SubSeq(s, dp, dp + dl - 1))), dp + dl)

strptime_month(s, time, ml) ==
    IF ml = 0 \/ ~CharIs(s, 6 + ml, "-") THEN StrptimeFail
    ELSE strptime_day(s, time, ml, 7 + ml, DirectiveLen("d", s, 7 + ml))

\* datetime.strptime(s, '%Y-%m-%d') when time is FALSE and
\* datetime.strptime(s, '%Y-%m-%d %H:%M:%S') when it is TRUE: ok is FALSE
\* where Python raises ValueError (no match, unconverted data, or a date or
\* time datetime() refuses: year 0, 30 February, second 60)
strptime(s, time) ==
    IF ~(/\ Len(s) >= 5
         /\ \A k \in 1..4 : IsDigit(Ch(s, k))
         /\ Ch(s, 5) = "-")
    THEN StrptimeFail
    ELSE strptime_month(s, time, DirectiveLen("m", s, 6))

\* from_date >= to_date
DateAfterOrSame(a, b) ==
    \/ a.Y > b.Y
    \/ a.Y = b.Y /\ a.M > b.M
    \/ a.Y = b.Y /\ a.M = b.M /\ a.D >= b.D

\* from_date > to_date of two datetimes at midnight
DateAfter(a, b) ==
    \/ a.Y > b.Y
    \/ a.Y = b.Y /\ a.M > b.M
    \/ a.Y = b.Y /\ a.M = b.M /\ a.D > b.D

PyTrue == [type |-> "bool", val |-> TRUE]

\* Leaflet.validate: True, or the ValidationException it raises (the text
\* of the ValueError that follows "Invalid date format" is left out)
validate(self) ==
    IF self.title = "" \/ strip(self.title) = ""
    THEN Raise("ValidationException", "Title cannot be empty")
    ELSE IF self.thumbnail = "" \/ ~startswith(self.thumbnail, "http")
    THEN Raise("ValidationException", "Invalid thumbnail URL: " \o self.thumbnail)
    ELSE IF self.shop_name = "" \/ strip(self.shop_name) = ""
    THEN Raise("ValidationException", "Shop name cannot be empty")
    ELSE IF \/ ~strptime(self.valid_from, FALSE).ok
            \/ ~strptime(self.valid_to, FALSE).ok
            \/ ~strptime(self.parsed_time, TRUE).ok
    THEN Raise("ValidationException", "Invalid date format")
    ELSE IF /\ self.valid_to # OPEN_ENDED_DATE
            /\ DateAfter(strptime(self.valid_from, FALSE),
                         strptime(self.valid_to, FALSE))
    THEN Raise("ValidationException",
               "valid_from (" \o self.valid_from \o ") is after valid_to ("
                   \o self.valid_to \o ")")
    ELSE PyTrue

\* Leaflet.is_open_ended
is_open_ended(self) == self.valid_to = OPEN_ENDED_DATE

(***************************************************************************)
(* urllib.parse.urljoin, for URLs without query, fragment or dot segments  *)
(***************************************************************************)
RECURSIVE LowerStr(_)
LowerStr(s) ==
    IF s = "" THEN ""
    ELSE Lower(Ch(s, 1)) \o LowerStr(SubSeq(s, 2, Len(s)))

\* i is url.find(':'): the scheme ends there when what precedes is a scheme
scheme_end_at(url, i) ==
    IF /\ i > 1
       /\ Lower(Ch(url, 1)) \in LowerSet
       /\ \A k \in 1..(i - 1) :
              \/ IsWordChar(Ch(url, k)) /\ Ch(url, k) # "_"
              \/ Ch(url, k) \in {"+", "-", "."}
    THEN i
    ELSE 0

\* the index of the ':' that ends the URL's scheme, or 0 without a scheme
SchemeEnd(url) == scheme_end_at(url, FindFrom(url, ":", 1))

SplitResult(scheme, netloc, path) ==
    [scheme |-> scheme, netloc |-> netloc, path |-> path]

urlsplit_path(scheme, afterNet, slash) ==
    IF slash = 0 THEN SplitResult(scheme, afterNet, "")
    ELSE SplitResult(scheme, SubSeq(afterNet, 1, slash - 1),
                     SubSeq(afterNet, slash, Len(afterNet)))

urlsplit_netloc(scheme, afterNet) ==
    urlsplit_path(scheme, afterNet, FindFrom(afterNet, "/", 1))

urlsplit_rest(scheme, rest) ==
    IF startswith(rest, "//")
    THEN urlsplit_netloc(scheme, SubSeq(rest, 3, Len(rest)))
    ELSE SplitResult(scheme, "", rest)

urlsplit_scheme(url, default_scheme, se) ==
    IF se > 0
    THEN urlsplit_rest(LowerStr(SubSeq(url, 1, se - 1)),
                       SubSeq(url, se + 1, Len(url)))
    ELSE urlsplit_rest(default_scheme, url)

\* urllib.parse.urlsplit(url, scheme=default_scheme)
urlsplit(url, default_scheme) ==
    urlsplit_scheme(url, default_scheme, SchemeEnd(url))

urlunsplit(scheme, netloc, path) == scheme \o "://" \o netloc \o path

RECURSIVE LastSlash(_, _)
LastSlash(s, j) ==
    IF j < 1 THEN 0
    ELSE IF Ch(s, j) = "/" THEN j
    ELSE LastSlash(s, j - 1)

\* the base path up to its last '/', or '/' for a base without a path
base_dir(bpath) ==
    IF LastSlash(bpath, Len(bpath)) = 0 THEN "/"
    ELSE SubSeq(bpath, 1, LastSlash(bpath, Len(bpath)))

USES_RELATIVE == {"", "ftp", "http", "https", "file", "sftp", "ws", "wss"}

\* b and u are the split base and the split url
urljoin_parts(url, b, u) ==
    IF u.scheme # b.scheme \/ u.scheme \notin USES_RELATIVE THEN url
    ELSE IF u.netloc # "" THEN urlunsplit(u.scheme, u.netloc, u.path)
    ELSE IF u.path = "" THEN urlunsplit(u.scheme, b.netloc, b.path)
    ELSE IF startswith(u.path, "/") THEN urlunsplit(u.scheme, b.netloc, u.path)
    ELSE urlunsplit(u.scheme, b.netloc, base_dir(b.path) \o u.path)

urljoin_base(url, b) == urljoin_parts(url, b, urlsplit(url, b.scheme))

urljoin(base, url) ==
    IF base = "" THEN url
    ELSE IF url = "" THEN base
    ELSE urljoin_base(url, urlsplit(base, ""))

(***************************************************************************)
(* LeafletParser (parsers.py).  An element is what the selectors of parse  *)
(* can see of a fragment:                                                  *)
(*   h2, shop, hidden, visible: the texts of its h2, span.shop-name,       *)
(*     span.hidden-sm and span.visible-sm elements, in document order;     *)
(*   imgs: its img elements in document order, each with its attributes    *)
(*     and whether it lies in a div.image-wrapper (wrapper), in a picture  *)
(*     inside that wrapper (picture), in a figure (figure).                *)
(***************************************************************************)
Tag(h2, imgs, shop, hidden, visible) ==
    [type |-> "Tag", h2 |-> h2, imgs |-> imgs, shop |-> shop,
     hidden |-> hidden, visible |-> visible]

Img(wrapper, picture, figure, src, data_src, srcset) ==
    [wrapper |-> wrapper, picture |-> picture, figure |-> figure,
     src |-> src, data_src |-> data_src, srcset |-> srcset]

\* whether an img matches one of the three CSS selectors
Selects(selector, img) ==
    CASE selector = "div.image-wrapper picture img" -> img.wrapper /\ img.picture
      [] selector = "div.image-wrapper img" -> img.wrapper
      [] selector = "figure img" -> img.figure

\* element.select_one(selector): the index of the first img it selects, or 0
RECURSIVE select_one_img(_, _, _)
select_one_img(imgs, selector, i) ==
    IF i > Len(imgs) THEN 0
    ELSE IF Selects(selector, imgs[i]) THEN i
    ELSE select_one_img(imgs, selector, i + 1)

\* the end of the run of non-whitespace characters that starts at s[i]
RECURSIVE TokenEnd(_, _)
TokenEnd(s, i) ==
    IF i > Len(s) \/ IsSpace(Ch(s, i)) THEN i - 1
    ELSE TokenEnd(s, i + 1)

\* piece.split()[0]: st is where the first token would start
first_token(piece, st) ==
    IF st > Len(piece)
    THEN Raise("IndexError", "list index out of range")
    ELSE PyStr(SubSeq(piece, st, TokenEnd(piece, st)))

\* srcset.split(',')[0]: c is the index of the first comma, or 0
first_piece(srcset, c) == IF c = 0 THEN srcset ELSE SubSeq(srcset, 1, c - 1)

\* srcset.split(',')[0].split()[0]
first_srcset_url(srcset) ==
    first_token(first_piece(srcset, FindFrom(srcset, ",", 1)),
                SkipSpace(first_piece(srcset, FindFrom(srcset, ",", 1)), 1))

\* a or b
PyOr(a, b) == IF Truthy(a) THEN a ELSE b

\* img_elem.get('src') or img_elem.get('data-src') of the img at index i
src_or_data_src(imgs, i) ==
    IF i > 0 THEN PyOr(imgs[i].src, imgs[i].data_src) ELSE PyNone

\* lines 164-178: strategy 3, any img in a figure
thumbnail_figure(imgs, f) ==
    IF f > 0 /\ Truthy(src_or_data_src(imgs, f))
    THEN src_or_data_src(imgs, f)
    ELSE PyNone

\* lines 155-162: strategy 2, an img in the wrapper
thumbnail_wrapper(imgs, w) ==
    IF w > 0 /\ Truthy(src_or_data_src(imgs, w))
    THEN src_or_data_src(imgs, w)
    ELSE thumbnail_figure(imgs, select_one_img(imgs, "figure img", 1))

\* lines 129-153: strategy 1, the img in the wrapper's picture
thumbnail_picture(imgs, p) ==
    IF p > 0 /\ Truthy(imgs[p].src) THEN imgs[p].src
    ELSE IF p > 0 /\ Truthy(imgs[p].data_src) THEN imgs[p].data_src
    ELSE IF p > 0 /\ Truthy(imgs[p].srcset)
    THEN first_srcset_url(imgs[p].srcset.val)
    ELSE thumbnail_wrapper(imgs, select_one_img(imgs, "div.image-wrapper img", 1))

\* LeafletParser._extract_thumbnail
extract_thumbnail(element) ==
    thumbnail_picture(element.imgs,
        select_one_img(element.imgs, "div.image-wrapper picture img", 1))

\* lines 219-221: ensure absolute URL
resolve_thumbnail(base_url, thumbnail) ==
    IF ~startswith(thumbnail, "http")
    THEN urljoin(base_url, thumbnail)
    ELSE thumbnail

\* lines 226-232: the shop name, or None where parse returns None
resolve_shop_name(element, shop) ==
    IF Truthy(shop) THEN shop
    ELSE IF Len(element.shop) = 0 THEN PyNone
    ELSE PyStr(strip(element.shop[1]))

\* the hidden-sm label taken whenever it exists, empty or not
extract_date_string_hidden_first(element) ==
    IF Len(element.hidden) > 0 THEN PyStr(strip(element.hidden[1]))
    ELSE IF Len(element.visible) = 0 THEN PyNone
    ELSE PyStr(strip(element.visible[1]))

\* lines 239-247: the date string, or None where parse returns None
extract_date_string(element) ==
    IF Len(element.hidden) > 0 /\ strip(element.hidden[1]) # ""
    THEN PyStr(strip(element.hidden[1]))
    ELSE IF Len(element.visible) = 0 THEN PyNone
    ELSE PyStr(strip(element.visible[1]))

\* datetime.now().strftime('%Y-%m-%d %H:%M:%S')
strftime(now) ==
    Pad(now.Y, 4) \o "-" \o Pad(now.M, 2) \o "-" \o Pad(now.D, 2) \o " "
        \o Pad(now.h, 2) \o ":" \o Pad(now.m, 2) \o ":" \o Pad(now.s, 2)

\* lines 270-275: leaflet.validate() raises, or the leaflet is returned
validated(leaflet, outcome) == IF IsRaise(outcome) THEN outcome ELSE leaflet

\* lines 252-268: the parsed dates, the timestamp, the candidate Leaflet
build_leaflet(title, thumbnail, shop, dates, now) ==
    IF IsRaise(dates) THEN dates
    ELSE validated(
             Leaflet(title, thumbnail, shop, dates.valid_from, dates.valid_to,
                     strftime(now)),
             validate(Leaflet(title, thumbnail, shop, dates.valid_from,
                              dates.valid_to, strftime(now))))

\* lines 207-247: the fields found; None ends parse with None
parse_fields(base_url, title, thumbnail, shop_final, date_string, now) ==
    IF IsRaise(thumbnail) THEN thumbnail
    ELSE IF ~Truthy(thumbnail) THEN PyNone
    ELSE IF shop_final = PyNone THEN PyNone
    ELSE IF date_string = PyNone THEN PyNone
    ELSE build_leaflet(title, resolve_thumbnail(base_url, thumbnail.val),
                       shop_final.val,
                       parse_date_range(date_string, PyNone, now), now)

\* the try block of parse, lines 193-275
parse_try(base_url, element, shop, index, now) ==
    IF element.type # "Tag" THEN Raise("AttributeError", "select_one")
    ELSE IF Len(element.h2) = 0 THEN PyNone
    ELSE parse_fields(base_url, strip(element.h2[1]),
                      extract_thumbnail(element),
                      resolve_shop_name(element, shop),
                      extract_date_string(element), now)

\* a handler that lets a validation failure through
parse_except_not_validation(r) ==
    IF IsRaise(r) /\ r.exc \in ExceptionClasses \ {"ValidationException"}
    THEN PyNone
    ELSE r

\* a handler that catches the package's own exception classes only
parse_except_own_classes(r) ==
    IF IsRaise(r) /\ r.exc \in {"ParsingException", "ValidationException"}
    THEN PyNone
    ELSE r

\* lines 277-281: except Exception: log and return None
parse_except(r) ==
    IF IsRaise(r) /\ r.exc \in ExceptionClasses THEN PyNone ELSE r

\* LeafletParser.parse of the parser LeafletScraper builds (base_url=BASE_URL)
parse(element, shop, index, now) ==
    parse_except(parse_try(BASE_URL, element, shop, index, now))

(***************************************************************************)
(* Inputs                                                                  *)
(***************************************************************************)
\* the largest number of item fragments in a page
MaxFragments == 2

\* the latest year written in a date text
MaxYear == 2026

\* readings of datetime.now()
Clock ==
    {[Y |-> 2026, M |-> 11, D |-> 1, h |-> 9, m |-> 5, s |-> 0],
     [Y |-> 2027, M |-> 1, D |-> 2, h |-> 23, m |-> 59, s |-> 59]}

\* thumbnail URLs as found in the markup
AbsoluteUrl == "https://cdn.example/a.jpg"

PictureImg(src, data_src, srcset) == Img(TRUE, TRUE, FALSE, src, data_src, srcset)

SrcImg(url) == PictureImg(PyStr(url), PyNone, PyNone)

GoodElement ==
    Tag(<<"Angebote">>, <<SrcImg(AbsoluteUrl)>>, <<"Lidl">>,
        <<"02.02.2026 - 07.02.2026">>, <<>>)

\* the item fragments of the pages: the good one and one-field variations
FragmentPool ==
    {GoodElement,
     [GoodElement EXCEPT !.h2 = <<>>],
     [GoodElement EXCEPT !.imgs = <<SrcImg("/img/b.jpg")>>,
                         !.shop = <<" Aldi ">>,
                         !.hidden = <<"">>,
                         !.visible = <<"ab Mittwoch 01.10.2025">>],
     [GoodElement EXCEPT !.imgs = <<SrcImg("httpdocs/c.jpg")>>],
     [GoodElement EXCEPT !.imgs = <<PictureImg(PyNone, PyNone, PyStr(" "))>>],
     [GoodElement EXCEPT !.shop = <<>>,
                         !.hidden = <<"28.12. - 03.01.2026">>],
     [GoodElement EXCEPT !.hidden = <<"TBD">>],
     [GoodElement EXCEPT !.hidden = <<"07.02.2026 - 02.02.2026">>]}

\* the sequences over S of length at most n
RECURSIVE SeqsUpTo(_, _)
SeqsUpTo(S, n) ==
    IF n = 0 THEN {<<>>}
    ELSE LET shorter == SeqsUpTo(S, n - 1)
         IN  shorter \cup {Append(q, x) : q \in shorter, x \in S}

\* a page: whether div.letaky-grid exists, and the item fragments in it
Pages ==
    {[container |-> TRUE, items |-> q] : q \in SeqsUpTo(FragmentPool, MaxFragments)}
        \cup {[container |-> FALSE, items |-> <<>>]}

ShopOverrides == {PyNone, PyStr(""), PyStr("Kaufland")}

(***************************************************************************)
(* LeafletScraper.extract_leaflets_from_page (scrapers.py)                 *)
(***************************************************************************)
NoCall == [op |-> "none"]

Pending == [type |-> "pending"]

NoPrev == [type |-> "none"]

Init ==
    /\ pc = "idle"
    /\ html = [container |-> FALSE, items |-> <<>>]
    /\ shop_name = PyNone
    /\ leaflet_elements = <<>>
    /\ idx = 0
    /\ leaflets = <<>>
    /\ stamps = <<>>
    /\ call = NoCall
    /\ ret = Pending
    /\ prev = NoPrev

\* lines 88-105: the container, the elements, the early returns of []
ExtractStart(page, shop) ==
    /\ pc = "idle"
    /\ html' = page
    /\ shop_name' = shop
    /\ leaflet_elements' = IF page.container THEN page.items ELSE <<>>
    /\ leaflets' = <<>>
    /\ idx' = 1
    /\ pc' = IF ~page.container \/ Len(page.items) = 0 THEN "returned" ELSE "loop"
    /\ UNCHANGED <<stamps, call, ret, prev>>

\* the loop body putting each new leaflet in front of the list
loop_body_prepend(leaflet, now) ==
    IF IsRaise(leaflet)
    THEN /\ pc' = "raised"
         /\ UNCHANGED <<idx, leaflets, stamps>>
    ELSE /\ leaflets' = IF leaflet.type = "Leaflet"
                        THEN <<leaflet>> \o leaflets
                        ELSE leaflets
         /\ idx' = idx + 1
         /\ stamps' = Append(stamps, now)
         /\ pc' = pc

\* lines 107-110: parse returned leaflet, or raised
loop_body(leaflet, now) ==
    IF IsRaise(leaflet)
    THEN /\ pc' = "raised"
         /\ UNCHANGED <<idx, leaflets, stamps>>
    ELSE /\ leaflets' = IF leaflet.type = "Leaflet"
                        THEN Append(leaflets, leaflet)
                        ELSE leaflets
         /\ idx' = idx + 1
         /\ stamps' = Append(stamps, now)
         /\ pc' = pc

\* the readings of datetime.now() do not go back
ClockFields(c) == <<c.Y, c.M, c.D, c.h, c.m, c.s>>

RECURSIVE TupleBefore(_, _, _)
TupleBefore(a, b, k) ==
    /\ k <= Len(a)
    /\ \/ a[k] < b[k]
       \/ a[k] = b[k] /\ TupleBefore(a, b, k + 1)

ClockAdvances(now) ==
    IF stamps = <<>> THEN TRUE
    ELSE ~TupleBefore(ClockFields(now), ClockFields(stamps[Len(stamps)]), 1)

\* lines 106-110: one iteration of the loop
ExtractStep(now) ==
    /\ pc = "loop"
    /\ idx <= Len(leaflet_elements)
    /\ ClockAdvances(now)
    /\ loop_body(parse(leaflet_elements[idx], shop_name, idx, now), now)
    /\ UNCHANGED <<html, shop_name, leaflet_elements, call, ret, prev>>

\* line 112: return leaflets
ExtractReturn ==
    /\ pc = "loop"
    /\ idx > Len(leaflet_elements)
    /\ pc' = "returned"
    /\ UNCHANGED <<html, shop_name, leaflet_elements, idx, leaflets, stamps,
                   call, ret, prev>>

Next ==
    \/ \E page \in Pages, shop \in ShopOverrides : ExtractStart(page, shop)
    \/ \E now \in Clock : ExtractStep(now)
    \/ ExtractReturn

Spec == Init /\ [][Next]_vars

(***************************************************************************)
(* Direct calls of the units: the arguments are drawn by the initial       *)
(* state, the action applies the unit to them                              *)
(***************************************************************************)
\* a date text is written lead, first, sep, second, trail; first and second
\* are nothing, a word, a date without year (DD.MM.) or a date (DD.MM.YYYY)
NoPart == [kind |-> "none", d |-> 0, m |-> 0, y |-> 0]

WordPart == [kind |-> "word", d |-> 0, m |-> 0, y |-> 0]

ShortPart(d, m) == [kind |-> "short", d |-> d, m |-> m, y |-> 0]

FullPart(d, m, y) == [kind |-> "full", d |-> d, m |-> m, y |-> y]

RenderPart(p) ==
    CASE p.kind = "none" -> ""
      [] p.kind = "word" -> "TBD"
      [] p.kind = "short" -> Pad(p.d, 2) \o "." \o Pad(p.m, 2) \o "."
      [] p.kind = "full" ->
            Pad(p.d, 2) \o "." \o Pad(p.m, 2) \o "." \o Pad(p.y, 4)

RenderText(parts) ==
    parts.lead \o RenderPart(parts.first) \o parts.sep
        \o RenderPart(parts.second) \o parts.trail

TextParts(lead, first, sep, second, trail) ==
    [lead |-> lead, first |-> first, sep |-> sep, second |-> second,
     trail |-> trail]

Leads == {"", "Aktion ab Mittwoch ", " SEIT  Sonntag\t"}

Trails == {"", " Uhr "}

DashSeps == {" - ", "-", "\t-\n "}

Seps == DashSeps \cup {" ", " bis "}

FirstParts ==
    {NoPart, WordPart}
        \cup {ShortPart(28, m) : m \in {1, 2, 12}}
        \cup {FullPart(d, 12, y) : d \in {3, 28}, y \in 2025..MaxYear}

SecondParts ==
    {NoPart, FullPart(30, 2, MaxYear)}
        \cup {FullPart(3, m, y) : m \in {1, 2}, y \in {0, 1000} \cup 2025..MaxYear}

DateTexts ==
    {TextParts(l, f, p, e, t) :
        l \in Leads, f \in FirstParts, p \in Seps, e \in SecondParts, t \in Trails}

CurrentYears == {PyNone, PyInt(1999)}

DateCall(date_string, current_year, parts) ==
    [op |-> "parse_date_range", date_string |-> date_string,
     current_year |-> current_year, parts |-> parts]

DateCalls ==
    {DateCall(PyStr(RenderText(parts)), cy, parts) :
        parts \in DateTexts, cy \in CurrentYears}
        \cup {DateCall(v, cy, TextParts("", NoPart, "", NoPart, "")) :
                v \in {PyNone, PyInt(20251001)}, cy \in CurrentYears}

H2Lists == {<<>>, <<"  ">>, <<" Angebote ">>}

WrapperImg(src, data_src) == Img(TRUE, FALSE, FALSE, src, data_src, PyNone)

FigureImg(src, data_src) == Img(FALSE, FALSE, TRUE, src, data_src, PyNone)

NoAttrImg == PictureImg(PyNone, PyNone, PyNone)

ImgLists ==
    {<<>>,
     <<SrcImg(AbsoluteUrl)>>,
     <<SrcImg("http://cdn.example/a.jpg")>>,
     <<SrcImg("/img/b.jpg")>>,
     <<SrcImg("img/b.jpg")>>,
     <<SrcImg("//cdn.example/b.jpg")>>,
     <<SrcImg("httpdocs/c.jpg")>>,
     <<SrcImg("data:image/png;base64,AAAA")>>,
     <<PictureImg(PyNone, PyStr("img/lazy.jpg"), PyNone)>>,
     <<PictureImg(PyStr(""), PyNone, PyStr(" img/s1.jpg 1x, img/s2.jpg 2x"))>>,
     <<PictureImg(PyNone, PyNone, PyStr(" "))>>,
     <<NoAttrImg, WrapperImg(PyStr("img/direct.jpg"), PyNone)>>,
     <<WrapperImg(PyNone, PyStr("img/direct.jpg")), NoAttrImg>>,
     <<NoAttrImg, FigureImg(PyStr(""), PyStr(AbsoluteUrl))>>,
     <<Img(FALSE, TRUE, FALSE, PyStr(AbsoluteUrl), PyNone, PyNone)>>}

ShopLabels == {<<>>, <<" Lidl ">>, <<"">>}

\* the texts of the span.hidden-sm and the span.visible-sm elements
DateLabels ==
    {<<<<"02.02.2026 - 07.02.2026">>, <<>>>>,
     <<<<>>, <<"28.12. - 03.01.2026">>>>,
     <<<<"">>, <<"ab Mittwoch 01.10.2025">>>>,
     <<<<" ">>, <<>>>>,
     <<<<>>, <<>>>>,
     <<<<>>, <<"">>>>,
     <<<<"TBD">>, <<"02.02.2026 - 07.02.2026">>>>,
     <<<<"02.02.2026 - 07.02.2026">>, <<"TBD">>>>,
     <<<<"07.02.2026 - 02.02.2026">>, <<>>>>,
     <<<<"30.02.2026 - 07.03.2026">>, <<>>>>,
     <<<<"01.12.2026 - 31.12.9999">>, <<>>>>}

CallElements ==
    {Tag(h, i, l, d[1], d[2]) :
        h \in H2Lists, i \in ImgLists, l \in ShopLabels, d \in DateLabels}
        \cup {PyNone, PyStr("<div></div>")}

ParseCall(element, shop) == [op |-> "parse", element |-> element, shop_name |-> shop]

ParseCalls ==
    {ParseCall(e, o) : e \in CallElements, o \in {PyNone, PyStr("Kaufland")}}

ValidateCall(leaflet) == [op |-> "validate", leaflet |-> leaflet]

ValidateCalls ==
    {ValidateCall(Leaflet(t, u, n, f, e, p)) :
        t \in {"", "  ", "Angebote"},
        u \in {"", "img/b.jpg", "httpdocs/c.jpg", AbsoluteUrl},
        n \in {"", "Lidl"},
        f \in {"2026-02-02", "2026-02-30", "999-12-28", "9999-12-31", "2027-01-01"},
        e \in {"2026-02-07", "2026-02-02", OPEN_ENDED_DATE, "2026-13-01", "2025-12-31"},
        p \in {"2026-11-01 09:05:00", "2026-11-01"}}

\* direct calls of _extract_thumbnail: the img lists above, and lists where
\* an img without a usable attribute stands before one that has it
ThumbnailCalls ==
    {[op |-> "_extract_thumbnail", element |-> [GoodElement EXCEPT !.imgs = i]] :
        i \in ImgLists \cup
            {<<PictureImg(PyStr(""), PyStr(""), PyStr("img/s1.jpg 1x"))>>,
             <<PictureImg(PyNone, PyStr("img/lazy.jpg"), PyStr("img/s1.jpg 1x"))>>,
             <<NoAttrImg, FigureImg(PyStr("img/fig.jpg"), PyNone)>>,
             <<WrapperImg(PyStr(""), PyNone), FigureImg(PyNone, PyStr("img/fig.jpg"))>>,
             <<WrapperImg(PyNone, PyNone), WrapperImg(PyStr("img/direct.jpg"), PyNone)>>,
             <<FigureImg(PyNone, PyNone)>>,
             <<FigureImg(PyStr("img/fig.jpg"), PyNone),
               WrapperImg(PyStr("img/direct.jpg"), PyNone)>>}}

IdlePipeline ==
    /\ pc = "idle"
    /\ html = [container |-> FALSE, items |-> <<>>]
    /\ shop_name = PyNone
    /\ leaflet_elements = <<>>
    /\ idx = 0
    /\ leaflets = <<>>
    /\ stamps = <<>>

InitCalls ==
    /\ IdlePipeline
    /\ call \in DateCalls \cup ParseCalls \cup ValidateCalls \cup ThumbnailCalls
    /\ ret = Pending
    /\ prev = NoPrev

\* DateParser.parse_date_range(date_string, current_year)
CallParseDateRange(now) ==
    /\ call.op = "parse_date_range"
    /\ ret = Pending
    /\ ret' = parse_date_range(call.date_string, call.current_year, now)
    /\ UNCHANGED <<call, prev>>
    /\ UNCHANGED pipeline_vars

\* LeafletParser(BASE_URL).parse(element, shop_name=shop_name)
CallParse(now) ==
    /\ call.op = "parse"
    /\ ret = Pending
    /\ ret' = parse(call.element, call.shop_name, 0, now)
    /\ UNCHANGED <<call, prev>>
    /\ UNCHANGED pipeline_vars

\* leaflet.validate()
CallValidate ==
    /\ call.op = "validate"
    /\ ret = Pending
    /\ ret' = validate(call.leaflet)
    /\ UNCHANGED <<call, prev>>
    /\ UNCHANGED pipeline_vars

\* LeafletParser(BASE_URL)._extract_thumbnail(element)
CallExtractThumbnail ==
    /\ call.op = "_extract_thumbnail"
    /\ ret = Pending
    /\ ret' = extract_thumbnail(call.element)
    /\ UNCHANGED <<call, prev>>
    /\ UNCHANGED pipeline_vars

NextCalls ==
    \/ \E now \in Clock : CallParseDateRange(now)
    \/ \E now \in Clock : CallParse(now)
    \/ CallValidate
    \/ CallExtractThumbnail

SpecCalls == InitCalls /\ [][NextCalls]_vars

(***************************************************************************)
(* The date parser on a text and on the text with one more word in it      *)
(***************************************************************************)
\* date texts without weekday names or prefixes, and some with a prefix
NormTexts ==
    {TextParts(l, f, p, e, "") :
        l \in {"", "ab "},
        f \in {WordPart, ShortPart(28, 12), FullPart(3, 12, 2025)},
        p \in {" - ", " bis "},
        e \in {NoPart, FullPart(3, 1, 2026)}}

\* weekday names and prefixes in several letter cases
AddedWords ==
    {GERMAN_DAYS[k] : k \in 1..Len(GERMAN_DAYS)}
        \cup {PREFIXES[k] : k \in 1..Len(PREFIXES)}
        \cup {"Montag", "MITTWOCH", "AB", "Seit", "vON"}

\* the text with the word, a blank on either side, put after its p-th character
InsertWord(text, p, word) ==
    SubSeq(text, 1, p) \o " " \o word \o " " \o SubSeq(text, p + 1, Len(text))

InitNorm ==
    /\ IdlePipeline
    /\ call \in {DateCall(PyStr(RenderText(parts)), PyNone, parts) :
                    parts \in NormTexts}
    /\ ret = Pending
    /\ prev = NoPrev

\* a word put after the p-th character of a text
Insertion(word, p) == [word |-> word, pos |-> p]

Insertions(text) == {Insertion(w, p) : w \in AddedWords, p \in 0..Len(text)}

\* the caller takes the text it had parsed, adds a word, and parses again
AddWord ==
    /\ call.op = "parse_date_range"
    /\ ret # Pending
    /\ prev = NoPrev
    /\ \E i \in Insertions(call.date_string.val) :
          /\ prev' = [type |-> "call", call |-> call, ret |-> ret,
                      word |-> i.word, pos |-> i.pos]
          /\ call' = [call EXCEPT
                         !.date_string =
                             PyStr(InsertWord(call.date_string.val, i.pos, i.word))]
    /\ ret' = Pending
    /\ UNCHANGED pipeline_vars

NextNorm ==
    \/ \E now \in Clock : CallParseDateRange(now)
    \/ AddWord

SpecNorm == InitNorm /\ [][NextNorm]_vars

(***************************************************************************)
(* Properties of extract_leaflets_from_page (checked under Spec)           *)
(***************************************************************************)
AppendLeaflet(seq, r) == IF r.type = "Leaflet" THEN Append(seq, r) ELSE seq

\* what parse gave for the elements 1..k, the None results left out
RECURSIVE NonNullResults(_)
NonNullResults(k) ==
    IF k = 0 THEN <<>>
    ELSE AppendLeaflet(NonNullResults(k - 1),
                       parse(leaflet_elements[k], shop_name, k, stamps[k]))

\* C1: the list extract_leaflets_from_page builds and returns is exactly the
\* non-None results of parse for the elements handled so far, in document
\* order; no exception leaves the loop; and a page without the container or
\* without elements returns the empty list
C1_ExtractInOrder ==
    /\ pc # "raised"
    /\ pc \in {"loop", "returned"} => leaflets = NonNullResults(idx - 1)
    /\ pc = "returned" => idx = Len(leaflet_elements) + 1
    /\ (pc = "returned" /\ (~html.container \/ Len(html.items) = 0))
           => leaflets = <<>>

\* two elements of one page returned two different leaflets
C1_Witness ==
    /\ pc = "returned"
    /\ Len(leaflets) = 2
    /\ leaflets[1].thumbnail # leaflets[2].thumbnail

\* parse of the k-th element as the only element of a page
ParsedAlone(k) == parse(leaflet_elements[k], shop_name, 1, stamps[k])

\* ParsedAlone of the elements 1..k
RECURSIVE AloneResults(_)
AloneResults(k) ==
    IF k = 0 THEN <<>> ELSE Append(AloneResults(k - 1), ParsedAlone(k))

\* every leaflet of alone is in the list, and the list holds no more
KeepsAll(alone) ==
    /\ \A k \in 1..Len(alone) :
          alone[k].type = "Leaflet" =>
              \E j \in 1..Len(leaflets) : leaflets[j] = alone[k]
    /\ Len(leaflets) =
           Cardinality({k \in 1..Len(alone) : alone[k].type = "Leaflet"})

\* C2: a failing element (a missing field, a date text no pattern matches, a
\* candidate validate rejects) never ends the loop: at the return, every
\* element that gives a leaflet on its own is in the list, and the elements
\* that do not are the only ones left out
C2_FailureSkipsOnlyItself ==
    /\ pc # "raised"
    /\ pc = "returned" => KeepsAll(AloneResults(Len(leaflet_elements)))

\* a page whose first element has no shop label (and no override is given)
\* and whose second element is returned
C2_Witness ==
    /\ pc = "returned"
    /\ Len(leaflet_elements) = 2
    /\ Len(leaflet_elements[1].shop) = 0
    /\ ~Truthy(shop_name)
    /\ Len(leaflets) = 1
    /\ leaflets[1] = ParsedAlone(2)

HttpScheme(url) == startswith(url, "http://") \/ startswith(url, "https://")

RecordInvariants(r) ==
    /\ strip(r.title) # ""
    /\ strip(r.shop_name) # ""
    /\ HttpScheme(r.thumbnail)
    /\ strptime(r.valid_from, FALSE).ok
    /\ strptime(r.valid_to, FALSE).ok
    /\ strptime(r.parsed_time, TRUE).ok
    /\ r.valid_to # OPEN_ENDED_DATE =>
           ~DateAfter(strptime(r.valid_from, FALSE), strptime(r.valid_to, FALSE))

\* C3: every leaflet in the list has a non-blank title and shop name, a
\* thumbnail that starts with http:// or https://, real calendar dates, a
\* well-formed timestamp and valid_from <= valid_to unless open-ended
C3_RecordInvariants ==
    \A j \in 1..Len(leaflets) : RecordInvariants(leaflets[j])

(***************************************************************************)
(* Properties of the units called directly (checked under SpecCalls)       *)
(***************************************************************************)
ParseReturned == call.op = "parse" /\ ret # Pending

DateRangeReturned == call.op = "parse_date_range" /\ ret # Pending

ValidateReturned == call.op = "validate" /\ ret # Pending

\* C4: an argument of the wrong type is absorbed like any per-item failure:
\* parse of a value that is no element returns None, and parse_date_range of
\* a value that is no string raises ParsingException and no other error
C4_WrongTypeAbsorbed ==
    /\ (ParseReturned /\ call.element.type # "Tag") => ret = PyNone
    /\ (DateRangeReturned /\ call.date_string.type # "str")
           => (IsRaise(ret) /\ ret.exc = "ParsingException")

\* parse(None) returned None
C4_Witness == ParseReturned /\ call.element = PyNone /\ ret = PyNone

\* C4 as stated: the error of a wrong-type argument reaches the caller, as
\* an error that is neither None nor a ParsingException
C4_WrongTypePropagates ==
    /\ (ParseReturned /\ call.element.type # "Tag") => IsRaise(ret)
    /\ (DateRangeReturned /\ call.date_string.type # "str")
           => (IsRaise(ret) /\ ret.exc # "ParsingException")

\* YYYY-MM-DD of a written date
IsoOfPart(p) == IsoDate(Pad(p.y, 4), Pad(p.m, 2), Pad(p.d, 2))

RangeWritten(parts) == parts.sep \in DashSeps /\ parts.second.kind = "full"

\* the pattern a written text is built to match: 1, 2, 3, or 0 for none
TierOf(parts) ==
    IF parts.first.kind = "full" /\ RangeWritten(parts) THEN 1
    ELSE IF parts.first.kind = "short" /\ RangeWritten(parts) THEN 2
    ELSE IF parts.first.kind = "full" \/ parts.second.kind = "full" THEN 3
    ELSE 0

\* the year the rollover rule gives a start date written without one
InferredYear(parts) ==
    IF parts.first.m <= parts.second.m THEN Pad(parts.second.y, 4)
    ELSE StrOf(parts.second.y - 1)

FirstWritten(parts) ==
    IF parts.first.kind = "full" THEN parts.first ELSE parts.second

ExpectedOfTier(parts, tier) ==
    CASE tier = 1 -> DateTuple(IsoOfPart(parts.first), IsoOfPart(parts.second))
      [] tier = 2 ->
            DateTuple(IsoDate(InferredYear(parts), Pad(parts.first.m, 2),
                              Pad(parts.first.d, 2)),
                      IsoOfPart(parts.second))
      [] tier = 3 -> DateTuple(IsoOfPart(FirstWritten(parts)), OPEN_ENDED_DATE)
      [] OTHER -> Raise("ParsingException",
                        "Unsupported date format: " \o RenderText(parts))

\* C5: a text with a full range gives both dates as written, whatever their
\* order; otherwise a text with a range whose start has no year gives the
\* start with the inferred year; otherwise a text with a date gives that
\* date and the open end; otherwise ParsingException with the text as passed
C5_FirstMatchWins ==
    (DateRangeReturned /\ call.date_string.type = "str")
        => ret = ExpectedOfTier(call.parts, TierOf(call.parts))

\* a full range whose start is after its end, returned as written
C5_Witness ==
    /\ DateRangeReturned
    /\ TierOf(call.parts) = 1
    /\ ret = DateTuple("2026-12-28", "2025-01-03")

SameForYear(year, result) ==
    \A now \in Clock : parse_date_range(call.date_string, year, now) = result

RECURSIVE CountDates(_, _)
CountDates(s, i) ==
    IF i > Len(s) THEN 0
    ELSE (IF DateAt(s, i) THEN 1 ELSE 0) + CountDates(s, i + 1)

\* C7: an open-ended result comes only from a text that, normalised, holds
\* exactly one DD.MM.YYYY date
C7_SingleDateOnly ==
    (/\ DateRangeReturned
     /\ call.date_string.type = "str"
     /\ ret.type = "tuple"
     /\ ret.valid_to = OPEN_ENDED_DATE)
        => CountDates(clean_date_string(call.date_string.val), 1) = 1

\* the key that orders well-formed YYYY-MM-DD strings by their numbers
DateNumbers(d) ==
    <<IntOf(SubSeq(d, 1, 4)), IntOf(SubSeq(d, 6, 7)), IntOf(SubSeq(d, 9, 10))>>

OrderError(self) ==
    Raise("ValidationException",
          "valid_from (" \o self.valid_from \o ") is after valid_to ("
              \o self.valid_to \o ")")

\* the checks validate makes before the ordering check pass
WellFormed(self) ==
    /\ strip(self.title) # ""
    /\ startswith(self.thumbnail, "http")
    /\ strip(self.shop_name) # ""
    /\ strptime(self.valid_from, FALSE).ok
    /\ strptime(self.valid_to, FALSE).ok
    /\ strptime(self.parsed_time, TRUE).ok

FromAfterTo(self) ==
    TupleBefore(DateNumbers(self.valid_to), DateNumbers(self.valid_from), 1)

OrderedOutcome(self) ==
    IF self.valid_to # OPEN_ENDED_DATE /\ FromAfterTo(self)
    THEN OrderError(self)
    ELSE PyTrue

\* C9: validate never fails the ordering check of a leaflet whose valid_to
\* is the sentinel, whatever its valid_from; for any other valid_to it raises
\* the ordering error exactly when valid_from is after valid_to; and the
\* ordering check is reached only when the checks before it pass
C9_OrderingCheck ==
    ValidateReturned =>
        /\ call.leaflet.valid_to = OPEN_ENDED_DATE => ret # OrderError(call.leaflet)
        /\ WellFormed(call.leaflet) => ret = OrderedOutcome(call.leaflet)
        /\ ~WellFormed(call.leaflet) => ret \notin {PyTrue, OrderError(call.leaflet)}

\* an open-ended leaflet with a late valid_from passed validate
C9_Witness ==
    /\ ValidateReturned
    /\ call.leaflet.valid_to = OPEN_ENDED_DATE
    /\ call.leaflet.valid_from = "2027-01-01"
    /\ ret = PyTrue

\* the thumbnail parse found in the element, before resolution
FoundThumbnail == extract_thumbnail(call.element)

IsRelativeUrl(url) == SchemeEnd(url) = 0

ResolvedFrom(found) ==
    /\ IsRaise(validate([ret EXCEPT !.thumbnail = found]))
    /\ ret.thumbnail = urljoin(BASE_URL, found)
    /\ HttpScheme(ret.thumbnail)
    /\ validate(ret) = PyTrue

\* C10: the leaflet parse returns for an element whose thumbnail was found
\* in relative form would fail validate with the thumbnail as found, and
\* carries the thumbnail resolved against BASE_URL, which passes validate
C10_RelativeResolved ==
    (/\ ParseReturned
     /\ call.element.type = "Tag"
     /\ ret.type = "Leaflet"
     /\ IsRelativeUrl(FoundThumbnail.val))
        => ResolvedFrom(FoundThumbnail.val)

(***************************************************************************)
(* Properties of the normalisation (checked under SpecNorm)                *)
(***************************************************************************)
\* the same pair, or ParsingException both times
SameOutcome(a, b) ==
    IF IsRaise(a) \/ IsRaise(b)
    THEN IsRaise(a) /\ IsRaise(b) /\ a.exc = b.exc
    ELSE a = b

WordAdded == prev.type = "call" /\ ret # Pending

\* the p-th character of text and the next: "" past either end
Around(text, p) ==
    {IF p >= 1 THEN Ch(text, p) ELSE "",
     IF p < Len(text) THEN Ch(text, p + 1) ELSE ""}

\* a position at an end of the text, or next to whitespace or to the dash
BetweenTokens(text, p) == Around(text, p) \cap {"", " ", "\t", "\n", "-"} # {}

\* C8: a weekday name or a prefix (von, ab, seit), in any letter case and
\* with a blank on either side, added to a date text at its start, at its
\* end, or next to whitespace or to the dash, does not change what
\* parse_date_range gives: the same pair, or ParsingException both times
C8_AddedWordIgnored ==
    (WordAdded /\ BetweenTokens(prev.call.date_string.val, prev.pos))
        => SameOutcome(ret, prev.ret)

\* "AB" added before the dash of a full range
C8_Witness ==
    /\ WordAdded
    /\ prev.word = "AB"
    /\ call.date_string.val = "03.12.2025 AB  - 03.01.2026"
    /\ ret = DateTuple("2025-12-03", "2026-01-03")
    /\ prev.ret = ret

\* C8 as stated: the word added at any position of the text
C8_AddedWordAnywhere == WordAdded => SameOutcome(ret, prev.ret)

(***************************************************************************)
(* Properties of the field extraction (checked under SpecCalls)            *)
(***************************************************************************)
ThumbnailReturned == call.op = "_extract_thumbnail" /\ ret # Pending

\* the first img of the list of a kind: the wrapper's picture img, an img
\* directly in the wrapper, an img in a figure; 0 when there is none
RECURSIVE FirstImg(_, _, _)
FirstImg(imgs, kind, i) ==
    IF i > Len(imgs) THEN 0
    ELSE IF CASE kind = "picture" -> imgs[i].wrapper /\ imgs[i].picture
              [] kind = "direct" -> imgs[i].wrapper /\ ~imgs[i].picture
              [] kind = "figure" -> imgs[i].figure
    THEN i
    ELSE FirstImg(imgs, kind, i + 1)

\* the first URL token of a srcset value, or None when it holds none
SrcsetToken(srcset) ==
    IF ~Truthy(srcset) THEN PyNone
    ELSE IF strip(first_piece(srcset.val, FindFrom(srcset.val, ",", 1))) = ""
    THEN PyNone
    ELSE first_srcset_url(srcset.val)

\* the candidates of the chain, in its order
Candidates(imgs, p, d, f) ==
    (IF p > 0 THEN <<imgs[p].src, imgs[p].data_src, SrcsetToken(imgs[p].srcset)>>
     ELSE <<>>)
        \o (IF d > 0 THEN <<imgs[d].src, imgs[d].data_src>> ELSE <<>>)
        \o (IF f > 0 THEN <<imgs[f].src, imgs[f].data_src>> ELSE <<>>)

RECURSIVE FirstNonEmpty(_, _)
FirstNonEmpty(cands, i) ==
    IF i > Len(cands) THEN PyNone
    ELSE IF Truthy(cands[i]) THEN cands[i]
    ELSE FirstNonEmpty(cands, i + 1)

\* C11: _extract_thumbnail returns the first non-empty candidate of the
\* chain picture img (src, data-src, first srcset token), img directly in
\* the wrapper (src, data-src), figure img (src, data-src), and None when
\* there is no such candidate
C11_FallbackChain ==
    ThumbnailReturned =>
        ret = FirstNonEmpty(
                  Candidates(call.element.imgs,
                             FirstImg(call.element.imgs, "picture", 1),
                             FirstImg(call.element.imgs, "direct", 1),
                             FirstImg(call.element.imgs, "figure", 1)), 1)

\* the text of a label that exists and is not blank
HasText(label) == Len(label) > 0 /\ strip(label[1]) # ""

\* the label the date text is to come from: 1 hidden-sm, 2 visible-sm, 0 none
ChosenLabel(element) ==
    IF HasText(element.hidden) THEN 1
    ELSE IF HasText(element.visible) THEN 2
    ELSE 0

\* the element with the given date text as its only date label
WithDateText(element, text) ==
    [element EXCEPT !.hidden = <<text>>, !.visible = <<>>]

ParsesLike(element) ==
    \E now \in Clock : ret = parse(element, call.shop_name, 0, now)

\* C12: parse gives what it gives for the text of the hidden-sm label when
\* that label exists and is not blank, and otherwise for the text of the
\* visible-sm label when that one exists and is not blank; when neither
\* does, it returns None
C12_DateLabelFallback ==
    (ParseReturned /\ call.element.type = "Tag") =>
        CASE ChosenLabel(call.element) = 1 ->
                 ParsesLike(WithDateText(call.element, call.element.hidden[1]))
          [] ChosenLabel(call.element) = 2 ->
                 ParsesLike(WithDateText(call.element, call.element.visible[1]))
          [] OTHER -> ret = PyNone

\* an empty hidden-sm label, and the dates of the visible-sm label returned
C12_Witness ==
    /\ ParseReturned
    /\ call.element.type = "Tag"
    /\ call.element.hidden = <<"">>
    /\ call.element.visible = <<"ab Mittwoch 01.10.2025">>
    /\ ret.type = "Leaflet"
    /\ ret.valid_from = "2025-10-01"

(***************************************************************************)
(* Shop names in extract_leaflets_from_page (checked under Spec)           *)
(***************************************************************************)
\* an override is supplied when the shop_name argument is not None
OverrideSupplied == shop_name # PyNone

\* the shop name the k-th element's leaflet is to carry
ShopNameFor(k) ==
    IF OverrideSupplied THEN shop_name.val
    ELSE strip(leaflet_elements[k].shop[1])

AppendShopName(names, k, r) ==
    IF r.type = "Leaflet" THEN Append(names, ShopNameFor(k)) ELSE names

\* the shop names of the leaflets of the elements 1..k, in order
RECURSIVE ShopNamesFor(_)
ShopNamesFor(k) ==
    IF k = 0 THEN <<>>
    ELSE AppendShopName(ShopNamesFor(k - 1), k,
                        parse(leaflet_elements[k], shop_name, k, stamps[k]))

Unnamed(k) == ~OverrideSupplied /\ Len(leaflet_elements[k].shop) = 0

\* C13: with an override supplied every leaflet of the page carries exactly
\* the override; without one every leaflet carries the text of its own
\* element's span.shop-name; and an element with neither gives no leaflet
C13_ShopNameResolution ==
    pc \in {"loop", "returned"} =>
        /\ [j \in 1..Len(leaflets) |-> leaflets[j].shop_name] = ShopNamesFor(idx - 1)
        /\ \A k \in 1..(idx - 1) :
              Unnamed(k) =>
                  parse(leaflet_elements[k], shop_name, k, stamps[k]) = PyNone

(***************************************************************************)
(* The open-ended sentinel (checked under SpecCalls)                       *)
(***************************************************************************)
\* pattern1 or pattern2 matches the normalised date text
RangeMatched(date_string) ==
    re_search(1, date_string, 1) > 0 \/ re_search(2, date_string, 1) > 0

BelowSentinel(date) ==
    /\ date # OPEN_ENDED_DATE
    /\ TupleBefore(DateNumbers(date), DateNumbers(OPEN_ENDED_DATE), 1)

OpenEndedIffSingle(leaflet, ranged) ==
    /\ ranged => BelowSentinel(leaflet.valid_to)
    /\ is_open_ended(leaflet) <=> ~ranged

\* C14: a leaflet parse returns for a date text that matched a range pattern
\* has a valid_to that differs from the sentinel and is before it, so
\* is_open_ended() holds exactly for the leaflets of the single-date rule
C14_SentinelOnlyOpenEnded ==
    (ParseReturned /\ call.element.type = "Tag" /\ ret.type = "Leaflet") =>
        OpenEndedIffSingle(
            ret,
            RangeMatched(clean_date_string(extract_date_string(call.element).val)))

====
